---------------------------- MODULE Spec2Model ----------------------------
(***************************************************************************)
(* A model of render_to_img (src/src/render/x.py): the preparation of the  *)
(* page content and of the temp-file suffix, the scoped temporary          *)
(* directory, and the two external tools (headless browser, converter).    *)
(*                                                                         *)
(* Python strings and bytes are modelled as sequences of one-character     *)
(* strings, so that substring tests, concatenation and path splitting are  *)
(* computed rather than assumed.                                           *)
(***************************************************************************)
EXTENDS Integers, Sequences, FiniteSets, TLC

(***************************************************************************)
(* Bounds of the model.                                                    *)
(***************************************************************************)
\* Call slots that may run render_to_img concurrently (ConcSpec).
NumCalls == 2
\* Directory names tempfile may hand out.
MaxTmp == 2

(***************************************************************************)
(* String literals of the source.                                          *)
(***************************************************************************)
HTML == <<"h","t","m","l">>
META == <<"<","m","e","t","a"," ","h","t","t","p","-","e","q","u","i","v","=","\"","C","o","n","t","e","n","t","-","T","y","p","e","\""," ","c","o","n","t","e","n","t","=","\"","t","e","x","t","/","h","t","m","l",";"," ","c","h","a","r","s","e","t","=","u","t","f","-","8","\"","/",">">>
BASE_OPEN == <<"<","b","a","s","e"," ","h","r","e","f","=","\"","f","i","l","e",":","/","/">>
BASE_CLOSE == <<"/","\"",">">>
GOOGLE_CHROME == <<"g","o","o","g","l","e","-","c","h","r","o","m","e">>
MAC_CHROME == <<"/","A","p","p","l","i","c","a","t","i","o","n","s","/","G","o","o","g","l","e"," ","C","h","r","o","m","e",".","a","p","p","/","C","o","n","t","e","n","t","s","/","M","a","c","O","S","/","G","o","o","g","l","e"," ","C","h","r","o","m","e">>
XXX_DOT == <<"x","x","x",".">>
HEADLESS == <<"-","-","h","e","a","d","l","e","s","s">>
DISABLE_GPU == <<"-","-","d","i","s","a","b","l","e","-","g","p","u">>
NO_SANDBOX == <<"-","-","n","o","-","s","a","n","d","b","o","x">>
SCREENSHOT == <<"-","-","s","c","r","e","e","n","s","h","o","t">>
WINDOW_SIZE == <<"-","-","w","i","n","d","o","w","-","s","i","z","e","=">>
BACKGROUND_COLOR == <<"-","-","d","e","f","a","u","l","t","-","b","a","c","k","g","r","o","u","n","d","-","c","o","l","o","r","=","0","0","0","0","0","0","0","0">>
PNG == <<"p","n","g">>
BACKGROUND == <<"-","b","a","c","k","g","r","o","u","n","d">>
WHITE == <<"w","h","i","t","e">>
FLATTEN == <<"-","f","l","a","t","t","e","n">>
ALPHA == <<"-","a","l","p","h","a">>
OFF == <<"o","f","f">>
CONVERT == <<"c","o","n","v","e","r","t">>
SCREENSHOT_PNG == <<"s","c","r","e","e","n","s","h","o","t",".","p","n","g">>
TRIM == <<"-","t","r","i","m">>
REPAGE == <<"+","r","e","p","a","g","e">>
TO_STDOUT == <<":","-">>
\* Default viewport of the signature.
DefaultWidth == 1000
DefaultHeight == 2000

(***************************************************************************)
(* Values used as arguments and by the environment.                        *)
(***************************************************************************)
TEXT_HTML == <<"t","e","x","t","/","h","t","m","l">>
XHTML == <<"x","h","t","m","l">>
APPLICATION_XHTML == <<"a","p","p","l","i","c","a","t","i","o","n","/","x","h","t","m","l","+","x","m","l">>
JPG == <<"j","p","g">>
IMAGE_JPEG == <<"i","m","a","g","e","/","j","p","e","g">>
IMAGE_PNG == <<"i","m","a","g","e","/","p","n","g">>
SVG == <<"s","v","g">>
IMAGE_SVG == <<"i","m","a","g","e","/","s","v","g","+","x","m","l">>
TXT == <<"t","x","t">>
TEXT_PLAIN == <<"t","e","x","t","/","p","l","a","i","n">>
UPPER_PNG == <<"P","N","G">>
PAGE == <<"<","p",">">>
ASSETS == <<"/","a">>
TMP_PREFIX == <<"/","t","m","p","/","t","m","p">>
SEP == <<"/">>

\* Python's None: no one-character-string sequence equals it.
None == <<"None">>

\* None where a str or bytes object may stand.
NoneObj == [kind |-> "NoneType", data |-> <<>>]

\* A str or bytes object.
Str(s) == [kind |-> "str", data |-> s]
Bytes(s) == [kind |-> "bytes", data |-> s]

(***************************************************************************)
(* The mime alias table.  Its definition is not part of the source file;   *)
(* it is an insertion-ordered dict from short aliases to MIME strings,     *)
(* given here as the sequence of its items.                                *)
(***************************************************************************)
mimetypes ==
    << <<HTML, TEXT_HTML>>,
       <<XHTML, APPLICATION_XHTML>>,
       <<JPG, IMAGE_JPEG>>,
       <<PNG, IMAGE_PNG>>,
       <<SVG, IMAGE_SVG>> >>

(***************************************************************************)
(* Pure helpers.                                                           *)
(***************************************************************************)
\* sub in s, for str operands.
Contains(sub, s) ==
    \E i \in 0..(Len(s) - Len(sub)) : SubSeq(s, i + 1, i + Len(sub)) = sub

\* '{}'.format(n) for an int n.
Digits == <<"0","1","2","3","4","5","6","7","8","9">>
RECURSIVE NatStr(_)
NatStr(n) == IF n < 10 THEN <<Digits[n + 1]>>
             ELSE NatStr(n \div 10) \o <<Digits[(n % 10) + 1]>>
IntStr(n) == IF n < 0 THEN <<"-">> \o NatStr(-n) ELSE NatStr(n)

\* A variant of line 25 that tests mime == 'html'.
IsHtmlExact(mime) == mime = HTML

\* Line 25: 'html' in mime.
IsHtml(mime) == Contains(HTML, mime)

\* Line 26: str + input; a bytes input raises TypeError.
AddMeta(input) ==
    IF input.kind = "bytes"
    THEN [raised |-> "TypeError", input |-> input]
    ELSE [raised |-> "none", input |-> Str(META \o input.data)]

\* Lines 29-30: the base-href directive in front of the content.
AddBase(asset_base, input) ==
    IF asset_base # None
    THEN Str(BASE_OPEN \o asset_base \o BASE_CLOSE \o input.data)
    ELSE input

\* Lines 25-30: the content to write, or the exception raised on the way.
Framed(mime, input, asset_base) ==
    IF IsHtml(mime)
    THEN LET r == AddMeta(input)
         IN  IF r.raised # "none" THEN r
             ELSE [raised |-> "none", input |-> AddBase(asset_base, r.input)]
    ELSE [raised |-> "none", input |-> input]

\* dict.get: the value stored under key, or None.
TableGet(key) ==
    LET hits == {i \in 1..Len(mimetypes) : mimetypes[i][1] = key}
    IN  IF hits = {} THEN None ELSE mimetypes[CHOOSE i \in hits : TRUE][2]

\* Line 32: mimetypes.get(mime) or mime.
Canonical(mime) ==
    LET v == TableGet(mime)
    IN  IF v = None \/ v = <<>> THEN mime ELSE v

\* Lines 35-42: the first key, in the table's order, whose value is the
\* canonical MIME; the raw mime when there is none.
Suffix(mime) ==
    LET m == Canonical(mime)
        hits == {i \in 1..Len(mimetypes) : mimetypes[i][2] = m}
    IN  IF hits = {} THEN mime
        ELSE mimetypes[CHOOSE i \in hits : \A j \in hits : i <= j][1]

\* Lines 44-47.
Chrome(plat) == IF plat = "darwin" THEN MAC_CHROME ELSE GOOGLE_CHROME

\* os.path.join of two components (lines 53 and 81).
join(a, b) ==
    IF b # <<>> /\ Head(b) = "/" THEN b
    ELSE IF a = <<>> \/ a[Len(a)] = "/" THEN a \o b
    ELSE a \o SEP \o b

\* The alias of os.path.join used at line 81; its binding is not part of
\* the source file.
pjoin(a, b) == join(a, b)

\* Line 53.
InputPath(tdir, suffix) == join(tdir, XXX_DOT \o suffix)

\* Lines 54-56.
Flags(input) == IF input.kind = "bytes" THEN "wb" ELSE "w"

\* Lines 60-68: the browser's command line.
ChromeArgv(chrome, width, height, fn) ==
    << chrome, HEADLESS, DISABLE_GPU, NO_SANDBOX, SCREENSHOT,
       WINDOW_SIZE \o IntStr(width) \o <<",">> \o IntStr(height),
       BACKGROUND_COLOR, fn >>

\* A variant of line 69 that passes no cwd: the browser inherits the
\* caller's working directory.
ChromeCwdInherited(tdir) == None

\* Line 69: the browser's working directory.
ChromeCwd(tdir) == tdir

\* A variant of lines 72-76 that compares the type ignoring case.
MoreArgsAnyCase(typ) ==
    IF typ \in {PNG, UPPER_PNG} THEN <<>>
    ELSE <<BACKGROUND, WHITE, FLATTEN, ALPHA, OFF>>

\* Lines 72-76.
MoreArgs(typ) ==
    IF typ = PNG THEN <<>>
    ELSE <<BACKGROUND, WHITE, FLATTEN, ALPHA, OFF>>

\* Lines 80-85: the converter's command line.
ConvertArgv(tdir, typ) ==
    <<CONVERT, pjoin(tdir, SCREENSHOT_PNG), TRIM, REPAGE>>
        \o MoreArgs(typ) \o <<typ \o TO_STDOUT>>

\* k3proc.command_ex, as called at lines 60 and 79: the (returncode, out,
\* err) of the finished process, or CalledProcessError when the return code
\* is not 0.
command_ex(rc, out, err) ==
    IF rc # 0
    THEN [raised |-> "CalledProcessError", value |-> <<rc, Bytes(<<>>), Bytes(<<>>)>>]
    ELSE [raised |-> "none", value |-> <<rc, out, err>>]

\* k3proc.command: the (returncode, out, err) of the finished process,
\* whatever the return code.
command(rc, out, err) == [raised |-> "none", value |-> <<rc, out, err>>]

\* A variant of line 79 that takes the third element: _, _, out = ...
UnpackErr(value) == value[3]

\* Line 79: _, out, _ = ...
Unpack(value) == value[2]

(***************************************************************************)
(* The file system: each directory has the call that created it and its    *)
(* files; a path names a file of the directory that is its parent.         *)
(***************************************************************************)
LastSep(p) ==
    LET S == {i \in 1..Len(p) : p[i] = "/"}
    IN  IF S = {} THEN 0 ELSE CHOOSE i \in S : \A j \in S : j <= i
Dirname(p) == SubSeq(p, 1, LastSep(p) - 1)
Basename(p) == SubSeq(p, LastSep(p) + 1, Len(p))

NoFile == [owner |-> 0, mode |-> "", data |-> <<>>, src |-> 0]
File(c, mode, data, src) == [owner |-> c, mode |-> mode, data |-> data, src |-> src]

ReadFile(disk, p) ==
    IF Dirname(p) \in DOMAIN disk /\ Basename(p) \in DOMAIN disk[Dirname(p)].files
    THEN disk[Dirname(p)].files[Basename(p)]
    ELSE NoFile

\* open(p, 'w' or 'wb') needs the parent directory of p.
CanCreate(disk, p) == Dirname(p) \in DOMAIN disk /\ Basename(p) # <<>>

WriteFile(disk, p, f) ==
    [disk EXCEPT ![Dirname(p)].files = (Basename(p) :> f) @@ @]

MakeDir(disk, d, c) == (d :> [owner |-> c, files |-> <<>>]) @@ disk

RemoveTree(disk, d) == [x \in DOMAIN disk \ {d} |-> disk[x]]

TmpNames == {TMP_PREFIX \o NatStr(i) : i \in 1..MaxTmp}

(***************************************************************************)
(* The requests the callers make.                                          *)
(***************************************************************************)
Request(mime, input, typ, width, height, asset_base) ==
    [mime |-> mime, input |-> input, typ |-> typ,
     width |-> width, height |-> height, asset_base |-> asset_base]

Mimes == {HTML, TEXT_HTML, XHTML, APPLICATION_XHTML, SVG, IMAGE_SVG,
          JPG, IMAGE_JPEG, PNG, TXT, TEXT_PLAIN}
Inputs == {Str(PAGE), Bytes(PAGE)}
Typs == {PNG, JPG, UPPER_PNG}
Sizes == {<<DefaultWidth, DefaultHeight>>, <<800, 600>>}
AssetBases == {None, ASSETS}

Requests ==
    {Request(mi, i, t, s[1], s[2], a) :
        mi \in Mimes, i \in Inputs, t \in Typs, s \in Sizes, a \in AssetBases}

\* The requests of the concurrent callers.
ConcRequests ==
    {Request(mi, Str(PAGE), JPG, DefaultWidth, DefaultHeight, None) :
        mi \in {HTML, TEXT_PLAIN}}

\* What a finished converter may have written to its standard output and
\* standard error.
Stdouts == {Bytes(<<"i","m","g">>), Bytes(<<>>)}
Stderr == Bytes(<<"w","a","r","n">>)

Calls == 1..NumCalls

NoRequest == Request(<<>>, Str(<<>>), <<>>, 0, 0, None)
NoLocals == [input |-> Str(<<>>), suffix |-> <<>>, chrome |-> <<>>,
             tdir |-> None, fn |-> <<>>, flags |-> "", moreargs |-> <<>>,
             out |-> NoneObj]
NoExc == [type |-> "none", at |-> "none"]
Exc(type, at) == [type |-> type, at |-> at]

(***************************************************************************)
(* State.                                                                  *)
(***************************************************************************)
VARIABLES
    platform,   \* sys.platform of the process
    fs,         \* the directories under the temp root, with their files
    pc,         \* pc[c]: where call c is in render_to_img
    args,       \* args[c]: the arguments of call c
    locals,     \* locals[c]: the local variables of call c
    procs,      \* procs[c]: the external processes call c has started, in order
    written,    \* written[c]: what call c wrote to its input file (NoFile: nothing)
    exc,        \* exc[c]: the exception call c is unwinding with or has raised
    ret         \* ret[c]: the value call c returned (NoneObj: none yet)

vars == <<platform, fs, pc, args, locals, procs, written, exc, ret>>

Init ==
    /\ platform \in {"darwin", "linux"}
    /\ fs = <<>>
    /\ pc = [c \in Calls |-> "idle"]
    /\ args = [c \in Calls |-> NoRequest]
    /\ locals = [c \in Calls |-> NoLocals]
    /\ procs = [c \in Calls |-> <<>>]
    /\ written = [c \in Calls |-> NoFile]
    /\ exc = [c \in Calls |-> NoExc]
    /\ ret = [c \in Calls |-> NoneObj]

LastProc(c) == procs[c][Len(procs[c])]

(***************************************************************************)
(* Lines 25-47: the call starts; the content is framed, the suffix and the *)
(* browser's path are computed.  The TypeError of line 26 leaves the call  *)
(* before any directory exists.                                            *)
(***************************************************************************)
Call(c, r) ==
    /\ pc[c] = "idle"
    /\ args' = [args EXCEPT ![c] = r]
    /\ LET f == Framed(r.mime, r.input, r.asset_base)
       IN  /\ locals' = [locals EXCEPT ![c] =
                            [NoLocals EXCEPT !.input = f.input,
                                             !.suffix = Suffix(r.mime),
                                             !.chrome = Chrome(platform)]]
           /\ exc' = [exc EXCEPT ![c] =
                         IF f.raised = "none" THEN NoExc ELSE Exc(f.raised, "frame")]
           /\ pc' = [pc EXCEPT ![c] =
                         IF f.raised = "none" THEN "mkdtemp" ELSE "raised"]
    /\ procs' = [procs EXCEPT ![c] = <<>>]
    /\ written' = [written EXCEPT ![c] = NoFile]
    /\ ret' = [ret EXCEPT ![c] = NoneObj]
    /\ UNCHANGED <<platform, fs>>

(***************************************************************************)
(* Line 49: tempfile.TemporaryDirectory() creates a directory under a name *)
(* no existing directory has.                                              *)
(***************************************************************************)
\* A variant that takes a name whether or not a directory has it.
AnyNames(disk) == TmpNames

FreshNames(disk) == TmpNames \ DOMAIN disk

MkDtemp(c) ==
    /\ pc[c] = "mkdtemp"
    /\ \E d \in FreshNames(fs) :
          /\ fs' = MakeDir(fs, d, c)
          /\ locals' = [locals EXCEPT ![c].tdir = d]
    /\ pc' = [pc EXCEPT ![c] = "write"]
    /\ UNCHANGED <<platform, args, procs, written, exc, ret>>

\* Line 49: the directory cannot be created.
MkDtempFail(c) ==
    /\ pc[c] = "mkdtemp"
    /\ exc' = [exc EXCEPT ![c] = Exc("OSError", "mkdtemp")]
    /\ pc' = [pc EXCEPT ![c] = "raised"]
    /\ UNCHANGED <<platform, fs, args, locals, procs, written, ret>>

(***************************************************************************)
(* Lines 53-58: the content is written to xxx.<suffix> in the directory.   *)
(* open() raises FileNotFoundError when the path's parent is no directory. *)
(***************************************************************************)
WriteInput(c) ==
    /\ pc[c] = "write"
    /\ LET fn == InputPath(locals[c].tdir, locals[c].suffix)
           flags == Flags(locals[c].input)
           f == File(c, flags, locals[c].input.data, 0)
       IN  /\ locals' = [locals EXCEPT ![c].fn = fn, ![c].flags = flags]
           /\ IF CanCreate(fs, fn)
              THEN /\ fs' = WriteFile(fs, fn, f)
                   /\ written' = [written EXCEPT ![c] = f]
                   /\ pc' = [pc EXCEPT ![c] = "chrome"]
                   /\ exc' = exc
              ELSE /\ exc' = [exc EXCEPT ![c] = Exc("FileNotFoundError", "open")]
                   /\ pc' = [pc EXCEPT ![c] = "cleanup"]
                   /\ UNCHANGED <<fs, written>>
    /\ UNCHANGED <<platform, args, procs, ret>>

\* Line 58: the file is opened and the write fails (an I/O error).
WriteInputFail(c) ==
    /\ pc[c] = "write"
    /\ LET fn == InputPath(locals[c].tdir, locals[c].suffix)
           flags == Flags(locals[c].input)
       IN  /\ CanCreate(fs, fn)
           /\ locals' = [locals EXCEPT ![c].fn = fn, ![c].flags = flags]
           /\ fs' = WriteFile(fs, fn, File(c, flags, <<>>, 0))
    /\ exc' = [exc EXCEPT ![c] = Exc("OSError", "write")]
    /\ pc' = [pc EXCEPT ![c] = "cleanup"]
    /\ UNCHANGED <<platform, args, procs, written, ret>>

(***************************************************************************)
(* Lines 60-70: the browser.                                               *)
(***************************************************************************)
Proc(tool, argv, cwd, status) ==
    [tool |-> tool, argv |-> argv, cwd |-> cwd, status |-> status,
     read |-> NoFile, stdout |-> Bytes(<<>>), stderr |-> Bytes(<<>>)]

ChromeProc(c, status) ==
    Proc("chrome",
         ChromeArgv(locals[c].chrome, args[c].width, args[c].height, locals[c].fn),
         ChromeCwd(locals[c].tdir), status)

StartChrome(c) ==
    /\ pc[c] = "chrome"
    /\ procs' = [procs EXCEPT ![c] = Append(@, ChromeProc(c, "running"))]
    /\ pc' = [pc EXCEPT ![c] = "chrome_running"]
    /\ UNCHANGED <<platform, fs, args, locals, written, exc, ret>>

\* The executable cannot be started: the launch raises.
ChromeLaunchFail(c) ==
    /\ pc[c] = "chrome"
    /\ procs' = [procs EXCEPT ![c] = Append(@, ChromeProc(c, "nolaunch"))]
    /\ exc' = [exc EXCEPT ![c] = Exc("FileNotFoundError", "chrome")]
    /\ pc' = [pc EXCEPT ![c] = "cleanup"]
    /\ UNCHANGED <<platform, fs, args, locals, written, ret>>

\* The browser exits with rc; exiting with 0 it has written screenshot.png
\* into its working directory.  res is what the call that waited for it
\* makes of the exit.
ChromeExits(c, rc, res) ==
    /\ pc[c] = "chrome_running"
    /\ LET p == LastProc(c)
           page == ReadFile(fs, p.argv[Len(p.argv)])
           shot == File(c, "wb", <<"screenshot of">> \o page.data, page.owner)
       IN  /\ procs' = [procs EXCEPT ![c][Len(procs[c])] =
                           [p EXCEPT !.status = IF rc = 0 THEN "exit0" ELSE "failed",
                                     !.read = page]]
           /\ fs' = IF rc = 0 /\ p.cwd \in DOMAIN fs
                    THEN WriteFile(fs, join(p.cwd, SCREENSHOT_PNG), shot)
                    ELSE fs
           /\ exc' = [exc EXCEPT ![c] =
                         IF res.raised = "none" THEN NoExc ELSE Exc(res.raised, "chrome")]
           /\ pc' = [pc EXCEPT ![c] =
                         IF res.raised = "none" THEN "convert" ELSE "cleanup"]
    /\ UNCHANGED <<platform, args, locals, written, ret>>

\* A variant of lines 60-70 that does not check the exit code.
FinishChromeUnchecked(c, rc) ==
    ChromeExits(c, rc, command(rc, Bytes(<<>>), Bytes(<<>>)))

\* Lines 60-70: command_ex returns or raises.
FinishChrome(c, rc) ==
    ChromeExits(c, rc, command_ex(rc, Bytes(<<>>), Bytes(<<>>)))

(***************************************************************************)
(* Lines 72-87: the converter.                                             *)
(***************************************************************************)
ConvertProc(c, status) ==
    Proc("convert", ConvertArgv(locals[c].tdir, args[c].typ), None, status)

StartConvert(c) ==
    /\ pc[c] = "convert"
    /\ locals' = [locals EXCEPT ![c].moreargs = MoreArgs(args[c].typ)]
    /\ procs' = [procs EXCEPT ![c] = Append(@, ConvertProc(c, "running"))]
    /\ pc' = [pc EXCEPT ![c] = "convert_running"]
    /\ UNCHANGED <<platform, fs, args, written, exc, ret>>

ConvertLaunchFail(c) ==
    /\ pc[c] = "convert"
    /\ locals' = [locals EXCEPT ![c].moreargs = MoreArgs(args[c].typ)]
    /\ procs' = [procs EXCEPT ![c] = Append(@, ConvertProc(c, "nolaunch"))]
    /\ exc' = [exc EXCEPT ![c] = Exc("FileNotFoundError", "convert")]
    /\ pc' = [pc EXCEPT ![c] = "cleanup"]
    /\ UNCHANGED <<platform, fs, args, written, ret>>

\* The converter exits with rc, having written so to its standard output.
\* res is what the call that waited for it makes of the exit.
ConvertExits(c, rc, so, res) ==
    /\ pc[c] = "convert_running"
    /\ LET p == LastProc(c)
       IN  /\ procs' = [procs EXCEPT ![c][Len(procs[c])] =
                           [p EXCEPT !.status = IF rc = 0 THEN "exit0" ELSE "failed",
                                     !.read = ReadFile(fs, p.argv[2]),
                                     !.stdout = so, !.stderr = Stderr]]
           /\ locals' = [locals EXCEPT ![c].out =
                            IF res.raised = "none" THEN Unpack(res.value) ELSE @]
           /\ exc' = [exc EXCEPT ![c] =
                         IF res.raised = "none" THEN NoExc ELSE Exc(res.raised, "convert")]
    /\ pc' = [pc EXCEPT ![c] = "cleanup"]
    /\ UNCHANGED <<platform, fs, args, written, ret>>

\* A variant of lines 79-87 that does not check the exit code.
FinishConvertUnchecked(c, rc, so) ==
    ConvertExits(c, rc, so, command(rc, so, Stderr))

\* Lines 79-87: command_ex returns or raises.
FinishConvert(c, rc, so) ==
    ConvertExits(c, rc, so, command_ex(rc, so, Stderr))

\* A variant of line 49 without the with block: the directory is removed
\* by a call at the end of the body, which an exception skips.
CleanupUnlessRaising(c) ==
    /\ pc[c] = "cleanup"
    /\ fs' = IF exc[c] = NoExc THEN RemoveTree(fs, locals[c].tdir) ELSE fs
    /\ pc' = [pc EXCEPT ![c] = IF exc[c] = NoExc THEN "return" ELSE "raised"]
    /\ UNCHANGED <<platform, args, locals, procs, written, exc, ret>>

(***************************************************************************)
(* Line 49, leaving the with block: the directory and its content are      *)
(* removed, then the pending exception (if any) goes on to the caller.     *)
(***************************************************************************)
Cleanup(c) ==
    /\ pc[c] = "cleanup"
    /\ fs' = RemoveTree(fs, locals[c].tdir)
    /\ pc' = [pc EXCEPT ![c] = IF exc[c] = NoExc THEN "return" ELSE "raised"]
    /\ UNCHANGED <<platform, args, locals, procs, written, exc, ret>>

\* Line 89: return out.
Return(c) ==
    /\ pc[c] = "return"
    /\ ret' = [ret EXCEPT ![c] = locals[c].out]
    /\ pc' = [pc EXCEPT ![c] = "returned"]
    /\ UNCHANGED <<platform, fs, args, locals, procs, written, exc>>

\* The caller has the result or the exception; the slot is free for its
\* next call.
Finish(c) ==
    /\ pc[c] \in {"returned", "raised"}
    /\ pc' = [pc EXCEPT ![c] = "idle"]
    /\ args' = [args EXCEPT ![c] = NoRequest]
    /\ locals' = [locals EXCEPT ![c] = NoLocals]
    /\ procs' = [procs EXCEPT ![c] = <<>>]
    /\ written' = [written EXCEPT ![c] = NoFile]
    /\ exc' = [exc EXCEPT ![c] = NoExc]
    /\ ret' = [ret EXCEPT ![c] = NoneObj]
    /\ UNCHANGED <<platform, fs>>

ExitCodes == {0, 1}

Step(c) ==
    \/ MkDtemp(c)
    \/ MkDtempFail(c)
    \/ WriteInput(c)
    \/ WriteInputFail(c)
    \/ StartChrome(c)
    \/ ChromeLaunchFail(c)
    \/ \E rc \in ExitCodes : FinishChrome(c, rc)
    \/ StartConvert(c)
    \/ ConvertLaunchFail(c)
    \/ \E rc \in ExitCodes, so \in Stdouts : FinishConvert(c, rc, so)
    \/ Cleanup(c)
    \/ Return(c)
    \/ Finish(c)

\* One caller, any request.
Next ==
    \/ \E r \in Requests : Call(1, r)
    \/ Step(1)

Spec == Init /\ [][Next]_vars

\* Concurrent callers; the converter's output is one fixed value.
ConcNext ==
    \E c \in Calls :
        \/ \E r \in ConcRequests : Call(c, r)
        \/ MkDtemp(c)
        \/ MkDtempFail(c)
        \/ WriteInput(c)
        \/ WriteInputFail(c)
        \/ StartChrome(c)
        \/ ChromeLaunchFail(c)
        \/ \E rc \in ExitCodes : FinishChrome(c, rc)
        \/ StartConvert(c)
        \/ ConvertLaunchFail(c)
        \/ \E rc \in ExitCodes : FinishConvert(c, rc, Bytes(<<"i","m","g">>))
        \/ Cleanup(c)
        \/ Return(c)
        \/ Finish(c)

\* The platform only selects the browser's path; the concurrent callers
\* are followed on one platform.
ConcInit == Init /\ platform = "linux"

ConcSpec == ConcInit /\ [][ConcNext]_vars

(***************************************************************************)
(* Properties.                                                             *)
(***************************************************************************)
Started(c) == pc[c] # "idle"
InWith(c) == pc[c] \in {"write", "chrome", "chrome_running", "convert",
                        "convert_running", "cleanup"}
OwnedDirs(c) == {d \in DOMAIN fs : fs[d].owner = c}
ProcsOf(c, tool) == {i \in 1..Len(procs[c]) : procs[c][i].tool = tool}
ToolFailed(c) ==
    \E i \in 1..Len(procs[c]) : procs[c][i].status \in {"failed", "nolaunch"}

\* sub occurs in s, by recursion on the tail of s.
RECURSIVE HasSub(_, _)
HasSub(sub, s) ==
    IF Len(s) < Len(sub) THEN FALSE
    ELSE SubSeq(s, 1, Len(sub)) = sub \/ HasSub(sub, Tail(s))

Keys == {mimetypes[i][1] : i \in 1..Len(mimetypes)}
Values == {mimetypes[i][2] : i \in 1..Len(mimetypes)}

\* C1: once a call that created its temporary directory has left the with
\* block (it is about to return, has returned or has raised), the directory
\* does not exist and no directory the call created is left, whichever step
\* ended the call.
C1_TempDirRemoved ==
    \A c \in Calls :
        (pc[c] \in {"return", "returned", "raised"} /\ locals[c].tdir # None)
            => /\ locals[c].tdir \notin DOMAIN fs
               /\ OwnedDirs(c) = {}

C1_Witness ==
    /\ pc[1] = "raised"
    /\ locals[1].tdir # None
    /\ exc[1].at = "convert"
    /\ written[1] # NoFile

\* C2: when the browser or the converter could not be started or exited
\* non-zero, the call is unwinding with or has raised that tool's error, has
\* no return value and no output, and started no process after the failed
\* one.
C2_ToolFailureRaises ==
    \A c \in Calls :
        ToolFailed(c) =>
            /\ pc[c] \in {"cleanup", "raised"}
            /\ exc[c].type \in {"CalledProcessError", "FileNotFoundError"}
            /\ exc[c].at = LastProc(c).tool
            /\ LastProc(c).status \in {"failed", "nolaunch"}
            /\ \A i \in 1..(Len(procs[c]) - 1) : procs[c][i].status = "exit0"
            /\ Cardinality(ProcsOf(c, "chrome")) <= 1
            /\ Cardinality(ProcsOf(c, "convert")) <= 1
            /\ locals[c].out = NoneObj
            /\ ret[c] = NoneObj

C2_Witness ==
    /\ pc[1] = "raised"
    /\ procs[1] # <<>>
    /\ LastProc(1).tool = "convert"
    /\ LastProc(1).status = "failed"
    /\ LastProc(1).stdout.data # <<>>

\* C3: the processes of a call are the browser, then at most the converter;
\* the browser is started only after the input file was written, the
\* converter only after the browser exited with 0, and neither twice.
C3_Sequential ==
    \A c \in Calls :
        /\ Len(procs[c]) <= 2
        /\ procs[c] # <<>> =>
              /\ procs[c][1].tool = "chrome"
              /\ written[c] # NoFile
              /\ procs[c][1].argv[Len(procs[c][1].argv)] = locals[c].fn
        /\ Len(procs[c]) = 2 =>
              /\ procs[c][2].tool = "convert"
              /\ procs[c][1].status = "exit0"
        /\ pc[c] \in {"chrome", "chrome_running"} => ProcsOf(c, "convert") = {}
        /\ pc[c] = "chrome" => procs[c] = <<>>
        /\ pc[c] = "convert" => Len(procs[c]) = 1

C3_Witness ==
    /\ pc[1] = "returned"
    /\ Len(procs[1]) = 2
    /\ procs[1][2].status = "exit0"

\* C4 (as claimed): every HTML call, text or binary input, that does not
\* fail on the file system writes the base-href directive (if an asset base
\* is given), the meta directive and then the input.
C4_HtmlFramed ==
    \A c \in Calls :
        (/\ HasSub(HTML, args[c].mime)
         /\ pc[c] \notin {"idle", "mkdtemp", "write"}
         /\ exc[c].at \notin {"mkdtemp", "open", "write"})
            => /\ written[c] # NoFile
               /\ written[c].data =
                     (IF args[c].asset_base = None THEN <<>>
                      ELSE BASE_OPEN \o args[c].asset_base \o BASE_CLOSE)
                     \o META \o args[c].input.data

\* C5 (as claimed): the suffix of an alias is the alias, the suffix of a
\* MIME string of the table is its alias, the suffix of any other string is
\* the string, and the call does not fail for it when opening the file.
C5_SuffixDerivation ==
    \A c \in Calls :
        Started(c) =>
            LET mime == args[c].mime
                suffix == locals[c].suffix
            IN  /\ mime \in Keys => suffix = mime
                /\ mime \in Values =>
                      \E i \in 1..Len(mimetypes) :
                          mimetypes[i] = <<suffix, mime>>
                /\ mime \notin Keys \cup Values =>
                      /\ suffix = mime
                      /\ exc[c].at # "open"

\* C6: the converter's arguments are the screenshot, -trim, +repage, the
\* flatten and alpha arguments exactly when the type is not 'png', and
\* '<typ>:-' last.
C6_ConvertArgs ==
    \A c \in Calls :
        \A i \in ProcsOf(c, "convert") :
            LET a == procs[c][i].argv
                typ == args[c].typ
                flat == <<BACKGROUND, WHITE, FLATTEN, ALPHA, OFF>>
            IN  /\ a[1] = CONVERT
                /\ a[3] = TRIM
                /\ a[4] = REPAGE
                /\ a[Len(a)] = typ \o TO_STDOUT
                /\ typ = PNG => Len(a) = 5
                /\ typ # PNG => Len(a) = 10 /\ SubSeq(a, 5, 9) = flat
                /\ (\E j \in 1..Len(a) : a[j] \in {FLATTEN, ALPHA, BACKGROUND})
                      <=> typ # PNG

C6_Witness ==
    /\ args[1].typ = UPPER_PNG
    /\ ProcsOf(1, "convert") # {}
    /\ \E j \in 1..Len(LastProc(1).argv) : LastProc(1).argv[j] = FLATTEN

\* C7: concurrent calls have different temporary directories, each existing
\* and holding only its call's files while the call is in the with block;
\* a browser reads the input file its call wrote, a converter the
\* screenshot its call's browser made of that file.
C7_Isolation ==
    \A c \in Calls :
        /\ InWith(c) =>
              /\ locals[c].tdir \in DOMAIN fs
              /\ fs[locals[c].tdir].owner = c
              /\ \A n \in DOMAIN fs[locals[c].tdir].files :
                    fs[locals[c].tdir].files[n].owner = c
              /\ \A d \in Calls \ {c} :
                    InWith(d) => locals[d].tdir # locals[c].tdir
        /\ pc[c] \in {"chrome", "chrome_running"} =>
              ReadFile(fs, locals[c].fn) = written[c]
        /\ \A i \in 1..Len(procs[c]) :
              procs[c][i].status \in {"exit0", "failed"} =>
                  /\ procs[c][i].read.owner = c
                  /\ procs[c][i].tool = "chrome" => procs[c][i].read = written[c]
                  /\ procs[c][i].tool = "convert" => procs[c][i].read.src = c

C7_Witness ==
    /\ pc[1] = "convert_running"
    /\ pc[2] = "cleanup"
    /\ procs[2] # <<>>
    /\ LastProc(2).tool = "convert"

\* C8: a call that has returned returned the standard output of its
\* converter, which exited with 0, and its temporary directory is gone; a
\* return value exists only then.
C8_ReturnsStdout ==
    \A c \in Calls :
        /\ pc[c] = "returned" =>
              /\ procs[c] # <<>>
              /\ LastProc(c).tool = "convert"
              /\ LastProc(c).status = "exit0"
              /\ ret[c] = LastProc(c).stdout
              /\ ret[c].kind = "bytes"
              /\ locals[c].tdir \notin DOMAIN fs
        /\ ret[c] # NoneObj => pc[c] = "returned"

C8_Witness ==
    /\ pc[1] = "returned"
    /\ ret[1] = Bytes(<<"i","m","g">>)

\* C9: the framing is applied exactly when 'html' occurs in the mime; for
\* any other mime the file holds the input as given, written in the mode of
\* its type, and the processes' arguments are those of the directory, the
\* suffix, the size and the type alone.
C9_FramingOnlyForHtml ==
    \A c \in Calls :
        Started(c) =>
            LET html == HasSub(HTML, args[c].mime)
            IN  /\ exc[c].at = "frame" => html
                /\ written[c] # NoFile =>
                      /\ written[c].data = locals[c].input.data
                      /\ html <=> written[c].data # args[c].input.data
                      /\ html =>
                            /\ Len(written[c].data) >= Len(META) + Len(args[c].input.data)
                            /\ HasSub(META \o args[c].input.data, written[c].data)
                /\ (~html /\ written[c] # NoFile) =>
                      /\ written[c].data = args[c].input.data
                      /\ written[c].mode =
                            (IF args[c].input.kind = "bytes" THEN "wb" ELSE "w")
                /\ ~html =>
                      \A i \in 1..Len(procs[c]) :
                          procs[c][i].argv =
                              IF procs[c][i].tool = "chrome"
                              THEN ChromeArgv(Chrome(platform), args[c].width,
                                              args[c].height,
                                              locals[c].tdir \o SEP \o XXX_DOT
                                                  \o locals[c].suffix)
                              ELSE ConvertArgv(locals[c].tdir, args[c].typ)

C9_Witness ==
    /\ pc[1] = "returned"
    /\ args[1].mime = JPG
    /\ args[1].input = Bytes(PAGE)
    /\ args[1].asset_base = ASSETS
    /\ written[1] = File(1, "wb", PAGE, 0)

\* C10: while the browser or the converter runs, the call's directory
\* exists; the browser's target is the written input file in it and its
\* working directory is that directory; the converter's input is
\* screenshot.png of that directory, written by the browser.  The directory
\* exists from its creation until the with block is left, which happens
\* only after the converter exited or with an exception.
C10_DirWhileToolsRun ==
    \A c \in Calls :
        /\ InWith(c) => locals[c].tdir \in DOMAIN fs
        /\ pc[c] = "chrome_running" =>
              LET p == LastProc(c)
              IN  /\ p.tool = "chrome" /\ p.status = "running"
                  /\ p.cwd = locals[c].tdir
                  /\ p.argv[Len(p.argv)] =
                        locals[c].tdir \o SEP \o XXX_DOT \o locals[c].suffix
                  /\ ReadFile(fs, p.argv[Len(p.argv)]) = written[c]
                  /\ written[c] # NoFile
        /\ pc[c] = "convert_running" =>
              LET p == LastProc(c)
              IN  /\ p.tool = "convert" /\ p.status = "running"
                  /\ p.argv[2] = locals[c].tdir \o SEP \o SCREENSHOT_PNG
                  /\ ReadFile(fs, p.argv[2]) # NoFile
                  /\ ReadFile(fs, p.argv[2]).owner = c
                  /\ Dirname(p.argv[2]) = procs[c][1].cwd
        /\ pc[c] = "cleanup" =>
              \/ exc[c] # NoExc
              \/ /\ procs[c] # <<>>
                 /\ LastProc(c).tool = "convert"
                 /\ LastProc(c).status = "exit0"

C10_Witness ==
    /\ pc[1] = "convert_running"
    /\ ReadFile(fs, locals[1].tdir \o SEP \o SCREENSHOT_PNG).owner = 1

=============================================================================
